---- MODULE Spec2Model ----
(***************************************************************************)
(* Model of datamodel_code_generator/parser/base.py: the dependency sorter *)
(* sort_data_models, the relative import rule relative, and the module     *)
(* partitioning, model reuse and return value of Parser.parse.             *)
(*                                                                         *)
(* A DataModel is a record [name, reference_classes, base_classes,         *)
(* module_path]; the input list (self.results) is a function from          *)
(* 1..n to such records, and lists of models are sequences of indexes, so  *)
(* that two models with equal fields stay distinct objects, as in Python.  *)
(***************************************************************************)
EXTENDS Integers, Sequences, FiniteSets, TLC

VARIABLES
    models,                       \* the DataModel objects, by identity
    unsorted_data_models,         \* argument of the current call
    sorted_data_models,           \* OrderedDict: sequence of <<name, model>>
    require_update_action_models, \* list of names
    recursion_count,              \* argument of the current call
    unresolved_references,        \* local list of the current call
    index,                        \* position of the running for loop, from 1
    pc,                           \* where the program is
    run,                          \* 1: first sort, 2: sort of the sorted output
    first_sorted,                 \* sorted_data_models returned by the first sort
    module,                       \* relative: the current unit's namespace segments
    target,                       \* relative: [path, name] of the referenced model
    current_module,               \* relative: argument, a string
    reference,                    \* relative: argument, a string
    rel,                          \* relative: the returned pair of strings
    grouped_models,               \* parse: the groups still to process
    results,                      \* parse: dict, sequence of <<key, Result>>
    ret,                          \* parse: the returned value
    reuse_model,                  \* parse: the reuse_model option
    unit_input,                   \* parse: the models of one group, as grouped
    unit_models,                  \* parse: the group's list models, as processed
    unit_index,                   \* parse: position of the loop over the group
    model_cache,                  \* parse: dict, sequence of <<model_key, name>>
    duplicated_model_names        \* parse: dict, sequence of <<name, name>>

sortVars == <<models, unsorted_data_models, sorted_data_models,
              require_update_action_models, recursion_count,
              unresolved_references, index, run, first_sorted>>

relVars == <<module, target, current_module, reference, rel>>

parseVars == <<grouped_models, results, ret>>

reuseVars == <<reuse_model, unit_input, unit_models, unit_index, model_cache,
               duplicated_model_names>>

vars == <<sortVars, relVars, parseVars, reuseVars, pc>>

(***************************************************************************)
(* Bounds and program constants                                            *)
(***************************************************************************)
\* MAX_RECURSION_COUNT: int = 100
MAX_RECURSION_COUNT == 100

\* Names of the input models of the sorter specification, by position.
ModelNames == <<"A", "B">>

\* A name no input model has.
External == "D"

\* Namespace segments and the leaf name of the relative specification; each
\* is one character.
Segments == {<<"a">>, <<"b">>, <<"c">>, <<"d">>}
LeafName == <<"M">>

\* Longest namespace path of the relative specification.
MaxPathLen == 3

\* Longest module path of the parse specification.
MaxModuleDepth == 2

\* Length of the linear chain of the chain specification: the shortest chain
\* that reaches the fallback with two models still deferred.
ChainLen == 103

(***************************************************************************)
(* Helpers: Python list, set and OrderedDict operations                    *)
(***************************************************************************)
Range(s) == {s[i] : i \in DOMAIN s}

\* set(sorted_data_models): the keys of the OrderedDict
Keys(d) == {d[i][1] : i \in DOMAIN d}

\* sorted_data_models.values(), in key order
Values(d) == [i \in DOMAIN d |-> d[i][2]]

\* sorted_data_models[k] = v: a new key goes last, an existing key keeps its
\* position and gets the new value
DictSet(d, k, v) ==
    IF k \in Keys(d)
    THEN [i \in DOMAIN d |-> IF d[i][1] = k THEN <<k, v>> ELSE d[i]]
    ELSE Append(d, <<k, v>>)

\* list.index(x), 0-based; x is known to be in the list
ListIndex(s, x) ==
    (CHOOSE i \in DOMAIN s : s[i] = x /\ \A j \in 1..(i - 1) : s[j] # x) - 1

\* min(list of integers), list not empty
MinOf(S) == CHOOSE x \in S : \A y \in S : x <= y

(***************************************************************************)
(* sort_data_models, lines 92-107: the loop body for one model.  st is the *)
(* record [sorted, require, unresolved] of the three lists it updates.     *)
(***************************************************************************)
PassBody(ms, model, st) ==
    LET name == ms[model].name
        refs == ms[model].reference_classes
    IN  IF refs = {}
        THEN [st EXCEPT !.sorted = DictSet(@, name, model)]
        ELSE IF name \in refs /\ Cardinality(refs) = 1
        THEN [st EXCEPT !.sorted = DictSet(@, name, model),
                        !.require = Append(@, name)]
        ELSE IF (refs \ {name}) \ Keys(st.sorted) = {}
        THEN [st EXCEPT !.sorted = DictSet(@, name, model),
                        !.require = IF name \in refs THEN Append(@, name) ELSE @]
        ELSE [st EXCEPT !.unresolved = Append(@, model)]

(***************************************************************************)
(* lines 121-139: one iteration of the "sort on base_class dependency"     *)
(* loop                                                                    *)
(***************************************************************************)
\* unresolved_reference_model_names = [m.name for m in unresolved_references]
ModelNameList(ms, u) == [i \in DOMAIN u |-> ms[u[i]].name]

\* lines 125-133: the key of one model
BaseClassKey(ms, names, model) ==
    LET indexes == {ListIndex(names, ms[model].base_classes[k]) :
                      k \in {j \in DOMAIN ms[model].base_classes :
                               ms[model].base_classes[j] \in Range(names)}}
    IN  IF indexes # {} THEN MinOf(indexes) ELSE -1

\* sorted(ordered_models, key=lambda m: m[0]): stable.  An entry goes to the
\* position counting the entries of smaller key and the earlier entries of
\* equal key.
SortedByKey(pairs) ==
    LET rank(i) == Cardinality({j \in DOMAIN pairs :
                                  \/ pairs[j][1] < pairs[i][1]
                                  \/ pairs[j][1] = pairs[i][1] /\ j <= i})
    IN  [p \in DOMAIN pairs |-> pairs[CHOOSE i \in DOMAIN pairs : rank(i) = p]]

\* sorted_unresolved_models of one iteration
SortedUnresolvedModels(ms, u) ==
    LET names == ModelNameList(ms, u)
        ordered_models == [i \in DOMAIN u |-> <<BaseClassKey(ms, names, u[i]), u[i]>>]
        srt == SortedByKey(ordered_models)
    IN  [i \in DOMAIN srt |-> srt[i][2]]

(***************************************************************************)
(* lines 143-159: the body of the "circular reference" loop for one model; *)
(* names is unsorted_data_model_names, error is TRUE when the Exception of *)
(* line 159 is raised                                                      *)
(***************************************************************************)
\* Mutant: the loop records every model it places, placed references or not.
CircularBodyFlagAll(ms, model, names, st) ==
    LET name == ms[model].name
        unresolved_model == (ms[model].reference_classes \ {name}) \ Keys(st.sorted)
    IN  IF unresolved_model \ names = {}
        THEN [st EXCEPT !.sorted = DictSet(@, name, model),
                        !.require = Append(@, name)]
        ELSE [st EXCEPT !.error = TRUE]

CircularBody(ms, model, names, st) ==
    LET name == ms[model].name
        unresolved_model == (ms[model].reference_classes \ {name}) \ Keys(st.sorted)
    IN  IF unresolved_model = {}
        THEN [st EXCEPT !.sorted = DictSet(@, name, model)]
        ELSE IF unresolved_model \ names = {}
        THEN [st EXCEPT !.sorted = DictSet(@, name, model),
                        !.require = Append(@, name)]
        ELSE [st EXCEPT !.error = TRUE]

(***************************************************************************)
(* Actions of the sorter                                                   *)
(***************************************************************************)
\* Lines 92-107: the loop of one call of sort_data_models, one model a step.
SortPassStep ==
    /\ pc = "sort"
    /\ index <= Len(unsorted_data_models)
    /\ LET st == PassBody(models, unsorted_data_models[index],
                          [sorted |-> sorted_data_models,
                           require |-> require_update_action_models,
                           unresolved |-> unresolved_references])
       IN  /\ sorted_data_models' = st.sorted
           /\ require_update_action_models' = st.require
           /\ unresolved_references' = st.unresolved
    /\ index' = index + 1
    /\ UNCHANGED <<models, unsorted_data_models, recursion_count, pc, run,
                   first_sorted>>
    /\ UNCHANGED <<relVars, parseVars, reuseVars>>

\* Lines 108-119 and 160, after the loop: return, the recursive call (whose
\* result is returned as it is), or the fallback.
SortPassEnd ==
    /\ pc = "sort"
    /\ index > Len(unsorted_data_models)
    /\ IF unresolved_references = <<>>
       THEN /\ pc' = "done"
            /\ UNCHANGED <<unsorted_data_models, recursion_count,
                           unresolved_references, index>>
       ELSE IF recursion_count # 0
       THEN /\ pc' = "sort"
            /\ unsorted_data_models' = unresolved_references
            /\ recursion_count' = recursion_count - 1
            /\ unresolved_references' = <<>>
            /\ index' = 1
       ELSE /\ pc' = "base_class"
            /\ UNCHANGED <<unsorted_data_models, recursion_count,
                           unresolved_references, index>>
    /\ UNCHANGED <<models, sorted_data_models, require_update_action_models,
                   run, first_sorted>>
    /\ UNCHANGED <<relVars, parseVars, reuseVars>>

\* One iteration of the while True loop of lines 121-139.
SortOnBaseClass ==
    /\ pc = "base_class"
    /\ LET sorted_unresolved_models ==
               SortedUnresolvedModels(models, unresolved_references)
       IN  IF sorted_unresolved_models = unresolved_references
           THEN pc' = "circular" /\ index' = 1 /\ UNCHANGED unresolved_references
           ELSE pc' = "base_class" /\ UNCHANGED index
                /\ unresolved_references' = sorted_unresolved_models
    /\ UNCHANGED <<models, unsorted_data_models, sorted_data_models,
                   require_update_action_models, recursion_count, run,
                   first_sorted>>
    /\ UNCHANGED <<relVars, parseVars, reuseVars>>

\* Lines 143-159: the circular reference loop, one model a step.
CircularReferenceStep ==
    /\ pc = "circular"
    /\ index <= Len(unresolved_references)
    /\ LET st == CircularBody(models, unresolved_references[index],
                              Range(ModelNameList(models, unresolved_references)),
                              [sorted |-> sorted_data_models,
                               require |-> require_update_action_models,
                               error |-> FALSE])
       IN  /\ sorted_data_models' = st.sorted
           /\ require_update_action_models' = st.require
           /\ pc' = IF st.error THEN "error" ELSE "circular"
    /\ index' = index + 1
    /\ UNCHANGED <<models, unsorted_data_models, recursion_count,
                   unresolved_references, run, first_sorted>>
    /\ UNCHANGED <<relVars, parseVars, reuseVars>>

\* Line 160, after the circular reference loop.
CircularReferenceEnd ==
    /\ pc = "circular"
    /\ index > Len(unresolved_references)
    /\ pc' = "done"
    /\ UNCHANGED <<models, unsorted_data_models, sorted_data_models,
                   require_update_action_models, recursion_count,
                   unresolved_references, index, run, first_sorted>>
    /\ UNCHANGED <<relVars, parseVars, reuseVars>>

SortNext ==
    \/ SortPassStep
    \/ SortPassEnd
    \/ SortOnBaseClass
    \/ CircularReferenceStep
    \/ CircularReferenceEnd

(***************************************************************************)
(* Strings.  A Python string is modelled as the sequence of its            *)
(* characters, so that split and join are computed and not assumed to be   *)
(* inverse to each other.                                                  *)
(***************************************************************************)
Dot == "."

\* the empty string
Empty == <<>>

HasDot(str) == \E i \in DOMAIN str : str[i] = Dot

FirstDot(str) == CHOOSE i \in DOMAIN str : str[i] = Dot /\ \A j \in 1..(i - 1) : str[j] # Dot

LastDot(str) == CHOOSE i \in DOMAIN str : str[i] = Dot /\ \A j \in (i + 1)..Len(str) : str[j] # Dot

\* str.split('.')
RECURSIVE Split(_)
Split(str) ==
    IF ~HasDot(str) THEN <<str>>
    ELSE <<SubSeq(str, 1, FirstDot(str) - 1)>>
         \o Split(SubSeq(str, FirstDot(str) + 1, Len(str)))

\* '.'.join(parts)
RECURSIVE Join(_)
Join(parts) ==
    IF parts = <<>> THEN Empty
    ELSE IF Len(parts) = 1 THEN parts[1]
    ELSE parts[1] \o <<Dot>> \o Join(Tail(parts))

\* '.' * n
Dots(n) == [i \in 1..n |-> Dot]

\* the i of lines 172-176: the length of the common prefix of two lists
CommonPrefix(x, y) ==
    LET n == IF Len(x) < Len(y) THEN Len(x) ELSE Len(y)
        same(k) == \A j \in 1..k : x[j] = y[j]
    IN  CHOOSE k \in 0..n : same(k) /\ (k = n \/ x[k + 1] # y[k + 1])

(***************************************************************************)
(* relative, lines 163-189                                                 *)
(***************************************************************************)
\* Mutant: the ascend markers are not brought up to one.
relativeNoFloor(current_module_, reference_) ==
    LET current_module_path == IF current_module_ # Empty
                               THEN Split(current_module_) ELSE <<>>
        parts == Split(reference_)
        reference_path == SubSeq(parts, 1, Len(parts) - 1)
        name == parts[Len(parts)]
        i == CommonPrefix(current_module_path, reference_path)
        left == Dots(Len(current_module_path) - i)
        right == Join(SubSeq(reference_path, i + 1, Len(reference_path)))
    IN  IF current_module_path = reference_path THEN <<Empty, Empty>>
        ELSE IF right = Empty THEN <<left, name>>
        ELSE IF HasDot(right)
        THEN <<left \o SubSeq(right, 1, LastDot(right) - 1),
               SubSeq(right, LastDot(right) + 1, Len(right))>>
        ELSE <<left, right>>

relative(current_module_, reference_) ==
    LET current_module_path == IF current_module_ # Empty
                               THEN Split(current_module_) ELSE <<>>
        parts == Split(reference_)
        reference_path == SubSeq(parts, 1, Len(parts) - 1)
        name == parts[Len(parts)]
        i == CommonPrefix(current_module_path, reference_path)
        left0 == Dots(Len(current_module_path) - i)
        right == Join(SubSeq(reference_path, i + 1, Len(reference_path)))
        left == IF left0 = Empty THEN <<Dot>> ELSE left0
    IN  IF current_module_path = reference_path THEN <<Empty, Empty>>
        ELSE IF right = Empty THEN <<left, name>>
        ELSE IF HasDot(right)
        THEN <<left \o SubSeq(right, 1, LastDot(right) - 1),
               SubSeq(right, LastDot(right) + 1, Len(right))>>
        ELSE <<left, right>>

\* the relative variables while no call of relative is modelled
RelIdle ==
    /\ module = <<>>
    /\ target = [path |-> <<>>, name |-> Empty]
    /\ current_module = Empty
    /\ reference = Empty
    /\ rel = <<Empty, Empty>>

\* from_, import_ = relative(module_path, full_name), line 395
Relative ==
    /\ pc = "relative"
    /\ rel' = relative(current_module, reference)
    /\ pc' = "relative_done"
    /\ UNCHANGED <<sortVars, parseVars, reuseVars, module, target, current_module,
                   reference>>

(***************************************************************************)
(* Parser.parse, lines 343-368 and 496-502: module partitioning and the    *)
(* returned value.  A module path is a sequence of segments, a key of      *)
(* results a sequence of segments ending in a file name.  A Result is      *)
(* modelled by the list of models its body renders (empty for the          *)
(* placeholder Result(body='')).  No segment is named "__init__".          *)
(***************************************************************************)
\* Segments of module paths, in the order Python compares them.
ModuleSegments == <<"a", "b">>

SegmentRank(seg) == CHOOSE i \in DOMAIN ModuleSegments : ModuleSegments[i] = seg

InitFile == "__init__.py"

\* f'{module[-1]}.py'
PyFile(seg) == CASE seg = "a" -> "a.py" [] seg = "b" -> "b.py"

\* Python's tuple comparison p < q on module paths
PathLess(p, q) ==
    LET i == CommonPrefix(p, q)
    IN  IF i = Len(p) THEN i < Len(q)
        ELSE IF i = Len(q) THEN FALSE
        ELSE SegmentRank(p[i + 1]) < SegmentRank(q[i + 1])

\* sorted(sorted_data_models.values(), key=module_key, reverse=True): stable
SortedByModule(ms, vals) ==
    LET key(i) == ms[vals[i]].module_path
        rank(i) == Cardinality({j \in DOMAIN vals :
                                  \/ PathLess(key(i), key(j))
                                  \/ key(j) = key(i) /\ j <= i})
    IN  [p \in DOMAIN vals |-> vals[CHOOSE i \in DOMAIN vals : rank(i) = p]]

\* groupby(..., key=module_key): the runs of equal module_path, as
\* [module, models]
GroupBy(ms, srt) ==
    LET key(i) == ms[srt[i]].module_path
        starts == {i \in DOMAIN srt : i = 1 \/ key(i - 1) # key(i)}
        nth(g) == CHOOSE i \in starts : Cardinality({j \in starts : j <= i}) = g
        stop(i) == CHOOSE e \in i..Len(srt) :
                       /\ \A j \in i..e : key(j) = key(i)
                       /\ (e = Len(srt) \/ key(e + 1) # key(i))
    IN  [g \in 1..Cardinality(starts) |->
            [module |-> key(nth(g)), models |-> SubSeq(srt, nth(g), stop(nth(g)))]]

\* lines 357-368: the placeholder for the parent, and the key of the group
GroupKeys(res, mod) ==
    IF mod # <<>>
    THEN LET parent == Append(SubSeq(mod, 1, Len(mod) - 1), InitFile)
             res1 == IF parent \notin Keys(res)
                     THEN Append(res, <<parent, [models |-> <<>>]>>) ELSE res
         IN  IF Append(mod, InitFile) \in Keys(res1)
             THEN [results |-> res1, module |-> Append(mod, InitFile), init |-> TRUE]
             ELSE [results |-> res1,
                   module |-> Append(SubSeq(mod, 1, Len(mod) - 1), PyFile(mod[Len(mod)])),
                   init |-> FALSE]
    ELSE [results |-> res, module |-> <<InitFile>>, init |-> FALSE]

\* the parse variables while parse is not modelled
ParseIdle ==
    /\ grouped_models = <<>>
    /\ results = <<>>
    /\ ret = [kind |-> "none"]

\* lines 343-351, after sort_data_models has returned
GroupModels ==
    /\ pc = "done"
    /\ grouped_models' =
           GroupBy(models, SortedByModule(models, Values(sorted_data_models)))
    /\ results' = <<>>
    /\ pc' = "groups"
    /\ UNCHANGED <<sortVars, relVars, reuseVars, ret>>

\* lines 352-368 and 496: one iteration of the loop over the groups
ProcessGroup ==
    /\ pc = "groups"
    /\ grouped_models # <<>>
    /\ LET group == Head(grouped_models)
           k == GroupKeys(results, group.module)
       IN  results' = DictSet(k.results, k.module, [models |-> group.models])
    /\ grouped_models' = Tail(grouped_models)
    /\ UNCHANGED <<sortVars, relVars, reuseVars, ret, pc>>

\* lines 498-502
ParseReturn ==
    /\ pc = "groups"
    /\ grouped_models = <<>>
    /\ ret' = IF [i \in DOMAIN results |-> results[i][1]] = <<<<InitFile>>>>
              THEN [kind |-> "str", body |-> results[1][2]]
              ELSE [kind |-> "map", results |-> results]
    /\ pc' = "parse_done"
    /\ UNCHANGED <<sortVars, relVars, reuseVars, grouped_models, results>>

(***************************************************************************)
(* Parser.parse, lines 377-378 and 446-481: model reuse within one group.  *)
(* A model of the group is a record [name, kind, base_classes,             *)
(* extra_template_data, fields]; kind "enum" stands for isinstance(model,  *)
(* Enum); a field is [name, type], type being the text of its data type;   *)
(* all_data_types of a model are the data types of its fields.  Names are  *)
(* unique within the group, so that equal records are the same object.     *)
(***************************************************************************)
\* dict.get(k) of an absent key; no model name is empty
None == ""

Get(d, k) ==
    IF k \in Keys(d) THEN (d[CHOOSE i \in DOMAIN d : d[i][1] = k])[2] ELSE None

\* list.insert(i, x), i counted from 0 as in Python, 0 <= i <= len
Insert(s, i, x) == SubSeq(s, 1, i) \o <<x>> \o SubSeq(s, i + 1, Len(s))

\* list.remove(x): the first occurrence goes
Remove(s, x) ==
    LET i == ListIndex(s, x)
    IN  SubSeq(s, 1, i) \o SubSeq(s, i + 2, Len(s))

\* to_hashable of a field: the sorted items of its dict
FieldKey(field) == <<<<"data_type", field.type>>, <<"name", field.name>>>>

\* lines 447-454; extra_template_data is kept as its sorted items
ModelKey(model) ==
    <<model.base_classes, model.extra_template_data,
      [i \in DOMAIN model.fields |-> FieldKey(model.fields[i])]>>

\* lines 461-466; extra_template_data is not passed and is empty
InheritedModel(model, cached_model_name) ==
    [name |-> model.name, kind |-> model.kind, fields |-> <<>>,
     base_classes |-> <<cached_model_name>>, extra_template_data |-> <<>>]

\* Mutant: a duplicated composite model is recorded in duplicated_model_names
\* as well.
ReuseBodyRecordAll(model, st) ==
    LET model_key == ModelKey(model)
        cached_model_name == Get(st.model_cache, model_key)
    IN  IF cached_model_name # None
        THEN IF model.kind = "enum"
             THEN [st EXCEPT !.duplicated_model_names =
                                 DictSet(@, model.name, cached_model_name)]
             ELSE LET index_ == ListIndex(st.models, model)
                      inherited_model == InheritedModel(model, cached_model_name)
                  IN  [st EXCEPT !.models =
                                     Remove(Insert(@, index_, inherited_model), model),
                                 !.duplicated_model_names =
                                     DictSet(@, model.name, cached_model_name)]
        ELSE [st EXCEPT !.model_cache = DictSet(@, model_key, model.name)]

\* lines 446-471, the body of "if self.reuse_model" for one model;
\* st = [models, model_cache, duplicated_model_names]
ReuseBody(model, st) ==
    LET model_key == ModelKey(model)
        cached_model_name == Get(st.model_cache, model_key)
    IN  IF cached_model_name # None
        THEN IF model.kind = "enum"
             THEN [st EXCEPT !.duplicated_model_names =
                                 DictSet(@, model.name, cached_model_name)]
             ELSE LET index_ == ListIndex(st.models, model)
                      inherited_model == InheritedModel(model, cached_model_name)
                  IN  [st EXCEPT !.models =
                                     Remove(Insert(@, index_, inherited_model), model)]
        ELSE [st EXCEPT !.model_cache = DictSet(@, model_key, model.name)]

\* lines 473-481
RewriteDuplicated(ms, dup) ==
    LET retype(data_type) ==
            IF data_type.type # None /\ Get(dup, data_type.type) # None
            THEN [data_type EXCEPT !.type = Get(dup, data_type.type)]
            ELSE data_type
    IN  [m \in DOMAIN ms |->
            [ms[m] EXCEPT !.fields =
                [f \in DOMAIN ms[m].fields |-> retype(ms[m].fields[f])]]]

\* the reuse variables while no group is processed
ReuseIdle ==
    /\ reuse_model = FALSE
    /\ unit_input = <<>>
    /\ unit_models = <<>>
    /\ unit_index = 1
    /\ model_cache = <<>>
    /\ duplicated_model_names = <<>>

\* lines 379 and 446-471: one iteration of "for model in models"
ReuseStep ==
    /\ pc = "reuse"
    /\ unit_index <= Len(unit_models)
    /\ LET st == [models |-> unit_models, model_cache |-> model_cache,
                  duplicated_model_names |-> duplicated_model_names]
           st1 == IF reuse_model THEN ReuseBody(unit_models[unit_index], st) ELSE st
       IN  /\ unit_models' = st1.models
           /\ model_cache' = st1.model_cache
           /\ duplicated_model_names' = st1.duplicated_model_names
    /\ unit_index' = unit_index + 1
    /\ UNCHANGED <<sortVars, relVars, parseVars, reuse_model, unit_input, pc>>

\* lines 473-481, when the loop over the group has ended
ReuseRewrite ==
    /\ pc = "reuse"
    /\ unit_index > Len(unit_models)
    /\ unit_models' = IF reuse_model
                      THEN RewriteDuplicated(unit_models, duplicated_model_names)
                      ELSE unit_models
    /\ pc' = "reuse_done"
    /\ UNCHANGED <<sortVars, relVars, parseVars, reuse_model, unit_input,
                   unit_index, model_cache, duplicated_model_names>>

(***************************************************************************)
(* The state in which sort_data_models(self.results) is called             *)
(***************************************************************************)
SortInit(ms, count) ==
    /\ models = ms
    /\ unsorted_data_models = [i \in DOMAIN ms |-> i]
    /\ sorted_data_models = <<>>
    /\ require_update_action_models = <<>>
    /\ recursion_count = count
    /\ unresolved_references = <<>>
    /\ index = 1
    /\ pc = "sort"
    /\ run = 1
    /\ first_sorted = <<>>
    /\ RelIdle
    /\ ParseIdle
    /\ ReuseIdle

\* The first n names of ModelNames
FirstNames(n) == {ModelNames[i] : i \in 1..n}

\* Every list of n models named ModelNames[1..n] in this order (any other
\* input order is a renaming), each referencing any set of these names and
\* of External, with no base class or one base class among these names.
InputModels(n) ==
    {[i \in 1..n |-> [name |-> ModelNames[i],
                      reference_classes |-> f[i].reference_classes,
                      base_classes |-> f[i].base_classes,
                      module_path |-> <<>>]] :
        f \in [1..n -> [reference_classes : SUBSET (FirstNames(n) \cup {External}),
                        base_classes : {<<>>} \cup {<<b>> : b \in FirstNames(n)}]]}

(***************************************************************************)
(* Spec: lists of one or two models, sorted as Parser.parse sorts them     *)
(* (recursion_count = MAX_RECURSION_COUNT).  FairSpec adds that the        *)
(* program, which is sequential, keeps running while it has a next step.   *)
(***************************************************************************)
Init ==
    \E n \in 1..Len(ModelNames) : \E ms \in InputModels(n) :
        SortInit(ms, MAX_RECURSION_COUNT)

Next == SortNext

Spec == Init /\ [][Next]_vars

FairSpec == Spec /\ WF_vars(Next)

(***************************************************************************)
(* ChainSpec: a linear chain of ChainLen models, model e referencing only  *)
(* model e - 1 and model 1 referencing nothing, given first to last or     *)
(* last to first, the reference being a field type (no base class) or the  *)
(* base class; sorted as Parser.parse sorts it, then sorted again on the   *)
(* sorted output.  Chain models are named by their number.                 *)
(***************************************************************************)
ChainModels(reversed, inherit) ==
    [i \in 1..ChainLen |->
        LET e == IF reversed THEN ChainLen + 1 - i ELSE i
        IN  [name |-> e,
             reference_classes |-> IF e = 1 THEN {} ELSE {e - 1},
             base_classes |-> IF e = 1 \/ ~inherit THEN <<>> ELSE <<e - 1>>,
             module_path |-> <<>>]]

InitChain ==
    \E reversed \in BOOLEAN : \E inherit \in BOOLEAN :
        SortInit(ChainModels(reversed, inherit), MAX_RECURSION_COUNT)

\* sort_data_models(list(sorted_data_models.values())): the sort run again
Resort ==
    /\ pc = "done"
    /\ run = 1
    /\ first_sorted' = sorted_data_models
    /\ unsorted_data_models' = Values(sorted_data_models)
    /\ sorted_data_models' = <<>>
    /\ require_update_action_models' = <<>>
    /\ recursion_count' = MAX_RECURSION_COUNT
    /\ unresolved_references' = <<>>
    /\ index' = 1
    /\ pc' = "sort"
    /\ run' = 2
    /\ UNCHANGED <<models, relVars, parseVars, reuseVars>>

NextChain == SortNext \/ Resort

ChainSpec == InitChain /\ [][NextChain]_vars

(***************************************************************************)
(* Vocabulary of the claims about the sorter                               *)
(***************************************************************************)
NameOf(m) == models[m].name

InputNames == {NameOf(m) : m \in DOMAIN models}

\* the names a model references, its own excluded
OtherRefs(m) == models[m].reference_classes \ {NameOf(m)}

\* position of a key in the OrderedDict
Pos(n) == CHOOSE i \in DOMAIN sorted_data_models : sorted_data_models[i][1] = n

\* every referenced name is the name of an input model
AllDefined == \A m \in DOMAIN models : models[m].reference_classes \subseteq InputNames

\* some model references a name other than its own that names no input model
DanglingInput == \E m \in DOMAIN models : OtherRefs(m) \ InputNames # {}

\* the models left after repeatedly removing those that reference no
\* remaining model other than themselves
RECURSIVE RefCore(_)
RefCore(S) ==
    LET left == {NameOf(x) : x \in S}
        free == {m \in S : OtherRefs(m) \cap left = {}}
    IN  IF free = {} THEN S ELSE RefCore(S \ free)

\* the reference graph has no cycle (a model's reference to itself aside)
AcyclicRefs == RefCore(DOMAIN models) = {}

Returned == pc = "done"
Raised == pc = "error"

\* the sorted output places every referenced model strictly before the
\* model that references it
DependencyOrder ==
    \A m \in DOMAIN models : \A R \in OtherRefs(m) :
        /\ R \in Keys(sorted_data_models)
        /\ NameOf(m) \in Keys(sorted_data_models)
        /\ Pos(R) < Pos(NameOf(m))

(***************************************************************************)
(* C1. Acyclic order: when the reference graph has no cycle and every      *)
(* referenced name names an input model, the sorted output places the      *)
(* model named R strictly before M for every R in M's referenceClasses     *)
(* other than M's name, whether the order comes from the recursive passes  *)
(* or from the fallback.                                                   *)
(***************************************************************************)
AcyclicOrder == (Returned /\ AllDefined /\ AcyclicRefs) => DependencyOrder

(***************************************************************************)
(* C2. Hard failure: sort raises if and only if, when the circular         *)
(* reference loop starts, some still-deferred model has a reference that   *)
(* is not its own name, not a placed model and not a deferred model; an    *)
(* input whose references all name input models never raises, and an input *)
(* with a reference (other than the own name) to no input model always     *)
(* raises.                                                                 *)
(***************************************************************************)
DeferredNames == Range(ModelNameList(models, unresolved_references))

DeferredDangling ==
    \E i \in DOMAIN unresolved_references :
        (OtherRefs(unresolved_references[i]) \ Keys(sorted_data_models))
            \ DeferredNames # {}

HardFailure ==
    /\ [](Raised => DeferredDangling)
    /\ [](Returned => ~DeferredDangling)
    /\ [](AllDefined => ~Raised)
    /\ DanglingInput => <>Raised

(***************************************************************************)
(* C3. True cycle: two models A and B, A referencing exactly B and B       *)
(* exactly A: sort raises no error, and when it has returned both are in   *)
(* the sorted output and both names are in requireUpdateNames.             *)
(***************************************************************************)
TrueCycleInput ==
    /\ Len(models) = 2
    /\ models[1].reference_classes = {NameOf(2)}
    /\ models[2].reference_classes = {NameOf(1)}
    /\ NameOf(1) # NameOf(2)

TrueCycle ==
    TrueCycleInput =>
        /\ ~Raised
        /\ Returned =>
              /\ InputNames \subseteq Keys(sorted_data_models)
              /\ InputNames \subseteq Range(require_update_action_models)

\* each of the two models has the other among its base classes
MutualBases ==
    /\ Len(models) = 2
    /\ NameOf(2) \in Range(models[1].base_classes)
    /\ NameOf(1) \in Range(models[2].base_classes)

(***************************************************************************)
(* C3, amended: sort raises no error; unless A and B are also each other's *)
(* base class it returns; and when it has returned both are in the sorted  *)
(* output and requireUpdateNames is exactly the name of the model placed   *)
(* first (the second finds its reference already placed).                  *)
(***************************************************************************)
TrueCycleFlagsFirst ==
    TrueCycleInput =>
        /\ []~Raised
        /\ [](Returned =>
                /\ InputNames \subseteq Keys(sorted_data_models)
                /\ require_update_action_models = <<sorted_data_models[1][1]>>)
        /\ ~MutualBases => <>Returned

TrueCycleWitness ==
    /\ TrueCycleInput
    /\ Returned
    /\ Keys(sorted_data_models) = {"A", "B"}
    /\ require_update_action_models = <<"A">>

(***************************************************************************)
(* C4. Self-reference: after a sort that returns without error, every      *)
(* model whose referenceClasses contains its own name is in the sorted     *)
(* output and its name is in requireUpdateNames, however it was placed.    *)
(***************************************************************************)
SelfReference ==
    Returned =>
        \A m \in DOMAIN models :
            NameOf(m) \in models[m].reference_classes =>
                /\ NameOf(m) \in Keys(sorted_data_models)
                /\ NameOf(m) \in Range(require_update_action_models)

(***************************************************************************)
(* C5. Termination: sort returns or raises for every finite input list,    *)
(* base-class cycles among the deferred models included.                   *)
(***************************************************************************)
Termination == <>(Returned \/ Raised)

(***************************************************************************)
(* C6. Fallback equivalence: a linear chain longer than the recursion      *)
(* bound is sorted so that every model comes after its predecessor, and    *)
(* sorting the sorted output again returns the same order.                 *)
(***************************************************************************)
FallbackEquivalence ==
    /\ Returned => DependencyOrder
    /\ (Returned /\ run = 2) => sorted_data_models = first_sorted

(***************************************************************************)
(* RelativeSpec: relative called as Parser.parse calls it, with            *)
(* module_path = '.'.join(module) (line 355) and the full name of a model  *)
(* named LeafName in any namespace.                                        *)
(***************************************************************************)
Paths == UNION {[1..k -> Segments] : k \in 0..MaxPathLen}

SortIdle ==
    /\ models = <<>>
    /\ unsorted_data_models = <<>>
    /\ sorted_data_models = <<>>
    /\ require_update_action_models = <<>>
    /\ recursion_count = MAX_RECURSION_COUNT
    /\ unresolved_references = <<>>
    /\ index = 1
    /\ run = 1
    /\ first_sorted = <<>>

InitRelative ==
    /\ SortIdle
    /\ module \in Paths
    /\ \E p \in Paths : target = [path |-> p, name |-> LeafName]
    /\ current_module = Join(module)
    /\ reference = Join(Append(target.path, target.name))
    /\ rel = <<Empty, Empty>>
    /\ ParseIdle
    /\ ReuseIdle
    /\ pc = "relative"

NextRelative == Relative

RelativeSpec == InitRelative /\ [][NextRelative]_vars

(***************************************************************************)
(* Vocabulary of the claim about relative: it is stated on the namespace   *)
(* segments the two strings were built from.                               *)
(***************************************************************************)
\* length of the longest common prefix of the two namespaces
Common == CommonPrefix(module, target.path)

\* the reference's namespace segments after the common prefix
Remaining == SubSeq(target.path, Common + 1, Len(target.path))

\* one ascend marker per current-namespace segment beyond the common
\* prefix, at least one
Markers == Dots(IF Len(module) - Common < 1 THEN 1 ELSE Len(module) - Common)

\* everything but the deepest remaining segment, moved onto the from part
Moved == IF Remaining = <<>> THEN Empty
         ELSE Join(SubSeq(Remaining, 1, Len(Remaining) - 1))

RelativeDone == pc = "relative_done"

(***************************************************************************)
(* C9. Relative import: relative returns the empty pair exactly when the   *)
(* current namespace equals the reference's namespace; otherwise the from  *)
(* part is one ascend marker per current segment beyond the common prefix  *)
(* (at least one) followed by the moved segments, and the to part is what  *)
(* remains of the reference (namespace segments, then leaf name) after the *)
(* common prefix once all but the deepest segment, the leaf name, are      *)
(* moved onto the from part: for [a, b, c] and a.b.d.M, one marker and d   *)
(* on the from part and M as the to part.                                  *)
(***************************************************************************)
RelativeImport ==
    RelativeDone =>
        /\ (rel = <<Empty, Empty>>) <=> (module = target.path)
        /\ module # target.path =>
              /\ rel[1] = Markers \o Join(Remaining)
              /\ rel[2] = target.name

(***************************************************************************)
(* C9, amended: the leaf name is not part of what is split.  The to part   *)
(* is the deepest namespace segment of the reference after the common      *)
(* prefix, the namespace segments before it being moved onto the from      *)
(* part; only when no namespace segment remains (the reference lives in an *)
(* ancestor namespace of the current one) the to part is the leaf name.    *)
(* For current namespace [a, b, c] and reference a.b.d.M the result is the *)
(* pair (one ascend marker, d).                                            *)
(***************************************************************************)
RelativeImportLeaf ==
    RelativeDone =>
        /\ (rel = <<Empty, Empty>>) <=> (module = target.path)
        /\ module # target.path =>
              /\ rel[1] = Markers \o Moved
              /\ rel[2] = IF Remaining = <<>> THEN target.name
                          ELSE Remaining[Len(Remaining)]
        /\ (module = <<<<"a">>, <<"b">>, <<"c">>>>
            /\ target.path = <<<<"a">>, <<"b">>, <<"d">>>>)
               => rel = <<<<Dot>>, <<"d">>>>

RelativeImportWitness ==
    /\ RelativeDone
    /\ module = <<<<"a">>, <<"b">>, <<"c">>>>
    /\ target.path = <<<<"a">>, <<"b">>, <<"d">>>>
    /\ rel = <<<<Dot>>, <<"d">>>>

(***************************************************************************)
(* ParseSpec: Parser.parse from the call of sort_data_models to the        *)
(* return, on lists of up to two models.  Names are unique within a        *)
(* namespace; a model references nothing or one of the names; no base      *)
(* classes.                                                                *)
(***************************************************************************)
ModulePaths ==
    UNION {[1..k -> Range(ModuleSegments)] : k \in 0..MaxModuleDepth}

ParseModels(n) ==
    {ms \in [1..n -> [name : Range(ModelNames),
                      reference_classes : {{}} \cup {{r} : r \in Range(ModelNames)},
                      base_classes : {<<>>},
                      module_path : ModulePaths]] :
        \A i, j \in 1..n :
            (i # j /\ ms[i].name = ms[j].name) => ms[i].module_path # ms[j].module_path}

InitParse ==
    \E n \in 0..Len(ModelNames) : \E ms \in ParseModels(n) :
        SortInit(ms, MAX_RECURSION_COUNT)

NextParse == SortNext \/ GroupModels \/ ProcessGroup \/ ParseReturn

ParseSpec == InitParse /\ [][NextParse]_vars

(***************************************************************************)
(* Vocabulary of the claims about parse                                    *)
(***************************************************************************)
ParseDone == pc = "parse_done"

ResultKeys == [i \in DOMAIN results |-> results[i][1]]

ResultAt(key) == results[CHOOSE i \in DOMAIN results : results[i][1] = key][2]

\* init unit and leaf unit of a module path
InitKey(path) == Append(path, InitFile)
LeafKey(path) == Append(SubSeq(path, 1, Len(path) - 1), PyFile(path[Len(path)]))

\* the groups: the module paths of the sorted models
GroupPaths == {models[sorted_data_models[i][2]].module_path : i \in DOMAIN sorted_data_models}

\* the models of the group of a path, in sorted order
GroupOf(path) ==
    SelectSeq(Values(sorted_data_models), LAMBDA m : models[m].module_path = path)

(***************************************************************************)
(* C7. Single-unit shortcut: parse returns a plain string, the root init   *)
(* unit's body, exactly when the only unit produced is the root init unit; *)
(* every input whose models all have an empty modulePath returns a string, *)
(* and every input with a model of non-empty modulePath returns the        *)
(* mapping.                                                                *)
(***************************************************************************)
SingleUnitShortcut ==
    ParseDone =>
        /\ ret.kind = "str" <=> ResultKeys = <<<<InitFile>>>>
        /\ ret.kind = "str" => ret.body = ResultAt(<<InitFile>>)
        /\ (\A m \in DOMAIN models : models[m].module_path = <<>>) => ret.kind = "str"
        /\ (\E m \in DOMAIN models : models[m].module_path # <<>>) => ret.kind = "map"

(***************************************************************************)
(* C10. Module partitioning: when parse has processed all groups, every    *)
(* group with a non-empty modulePath has a package-init unit in the result *)
(* at every proper prefix of its path, the root included, an empty         *)
(* placeholder when no model lives there; and a group is emitted as the    *)
(* init unit of its path when that unit already existed (a group below it  *)
(* made it), otherwise as the leaf unit named after its last segment.      *)
(***************************************************************************)
ModulePartitioning ==
    ParseDone =>
        \A path \in GroupPaths \ {<<>>} :
            /\ \A k \in 0..(Len(path) - 1) :
                  LET prefix == SubSeq(path, 1, k)
                  IN  /\ InitKey(prefix) \in Range(ResultKeys)
                      /\ prefix \notin GroupPaths =>
                             ResultAt(InitKey(prefix)).models = <<>>
            /\ IF \E child \in GroupPaths :
                      Len(child) = Len(path) + 1 /\ SubSeq(child, 1, Len(path)) = path
               THEN /\ ResultAt(InitKey(path)).models = GroupOf(path)
                    /\ LeafKey(path) \notin Range(ResultKeys)
               ELSE /\ LeafKey(path) \in Range(ResultKeys)
                    /\ ResultAt(LeafKey(path)).models = GroupOf(path)

(***************************************************************************)
(* ReuseSpec: the processing of one group of up to three models, named by  *)
(* position, with and without the reuse_model option.  A field is typed    *)
(* int or by the name of the group's second model.                         *)
(***************************************************************************)
UnitNames == <<"A", "B", "C">>

UnitFields ==
    {<<>>} \cup {<<[name |-> "x", type |-> t]>> : t \in {"int", UnitNames[2]}}

UnitModels(n) ==
    {ms \in [1..n -> [name : Range(UnitNames),
                      kind : {"model", "enum"},
                      base_classes : {<<>>, <<"Base">>},
                      extra_template_data : {<<>>, <<<<"title", "T">>>>},
                      fields : UnitFields]] :
        \A i \in 1..n : ms[i].name = UnitNames[i]}

InitReuse ==
    /\ SortIdle
    /\ RelIdle
    /\ ParseIdle
    /\ reuse_model \in BOOLEAN
    /\ \E n \in 0..Len(UnitNames) : unit_input \in UnitModels(n)
    /\ unit_models = unit_input
    /\ unit_index = 1
    /\ model_cache = <<>>
    /\ duplicated_model_names = <<>>
    /\ pc = "reuse"

NextReuse == ReuseStep \/ ReuseRewrite

ReuseSpec == InitReuse /\ [][NextReuse]_vars

(***************************************************************************)
(* Vocabulary of the claim about model reuse                               *)
(***************************************************************************)
ReuseDone == pc = "reuse_done"

Composite(model) == model.kind = "model"

\* same base classes, extra data and field lists
SameStructure(m1, m2) ==
    /\ m1.base_classes = m2.base_classes
    /\ m1.extra_template_data = m2.extra_template_data
    /\ m1.fields = m2.fields

\* position i < j holds a composite model of which the composite model at
\* j is a duplicate
DuplicatePair(i, j) ==
    /\ i < j
    /\ Composite(unit_input[i]) /\ Composite(unit_input[j])
    /\ unit_input[i].name # unit_input[j].name
    /\ SameStructure(unit_input[i], unit_input[j])

\* the first model of the group, of any kind, with the structure of j
Canonical(j) ==
    unit_input[CHOOSE i \in 1..j : /\ SameStructure(unit_input[i], unit_input[j])
                                   /\ \A h \in 1..(i - 1) :
                                          ~SameStructure(unit_input[h], unit_input[j])]

\* the model at j has been replaced by a subclass of the model named base
ReplacedBy(j, base) ==
    /\ Len(unit_models) = Len(unit_input)
    /\ unit_models[j].name = unit_input[j].name
    /\ unit_models[j].fields = <<>>
    /\ unit_models[j].base_classes = <<base>>

(***************************************************************************)
(* C8. Deduplication: in reuse mode, when the group holds two composite    *)
(* models with identical base classes, extra data and field lists but      *)
(* different names, then after the group is processed the later one is     *)
(* replaced, at the same position, by a model with the same name, no       *)
(* fields and the earlier model's name as its single base class, and no    *)
(* field of the group is typed by the later model's name any more: every   *)
(* such field is typed by the earlier model's name.                        *)
(***************************************************************************)
Deduplication ==
    (ReuseDone /\ reuse_model) =>
        \A i, j \in DOMAIN unit_input :
            DuplicatePair(i, j) =>
                /\ ReplacedBy(j, unit_input[i].name)
                /\ \A k \in DOMAIN unit_input : \A f \in DOMAIN unit_models[k].fields :
                       unit_input[k].fields[f].type = unit_input[j].name
                           => unit_models[k].fields[f].type = unit_input[i].name

(***************************************************************************)
(* C8, amended: the later model is replaced, at the same position, by a    *)
(* model with the same name, no fields and, as its single base class, the  *)
(* name of the first model of the group with that structure (the earlier   *)
(* model, when nothing before it has the structure); fields typed by the   *)
(* later model's name keep that type; only a field typed by the name of a  *)
(* duplicated enumeration is retyped, by the name of the first model with  *)
(* the enumeration's structure, the enumeration itself staying in place.   *)
(***************************************************************************)
DeduplicationSubclass ==
    (ReuseDone /\ reuse_model) =>
        /\ \A i, j \in DOMAIN unit_input :
              DuplicatePair(i, j) =>
                  /\ ReplacedBy(j, Canonical(j).name)
                  /\ (\A h \in 1..(i - 1) :
                          ~SameStructure(unit_input[h], unit_input[j]))
                         => ReplacedBy(j, unit_input[i].name)
        /\ \A k \in DOMAIN unit_input : \A f \in DOMAIN unit_models[k].fields :
              LET t == unit_input[k].fields[f].type
                  named == {j \in DOMAIN unit_input : unit_input[j].name = t}
              IN  unit_models[k].fields[f].type =
                      IF \E j \in named : /\ ~Composite(unit_input[j])
                                          /\ Canonical(j) # unit_input[j]
                      THEN Canonical(CHOOSE j \in named : TRUE).name
                      ELSE t
        /\ \A j \in DOMAIN unit_input :
              ~Composite(unit_input[j]) => unit_models[j].name = unit_input[j].name
                                           /\ unit_models[j].kind = "enum"
                                           /\ unit_models[j].base_classes =
                                                  unit_input[j].base_classes

\* A and B are duplicates, C has a field typed B: B is a subclass of A and
\* the field is still typed B
DeduplicationWitness ==
    /\ ReuseDone /\ reuse_model
    /\ Len(unit_input) = 3
    /\ DuplicatePair(1, 2)
    /\ unit_input[1].fields # <<>>
    /\ unit_input[3].fields = <<[name |-> "x", type |-> "B"]>>
    /\ ReplacedBy(2, "A")
    /\ unit_models[3].fields = <<[name |-> "x", type |-> "B"]>>

(***************************************************************************)
(* Vocabulary of the claim about the models kept by the sort               *)
(***************************************************************************)
\* names are unique within their namespace
UniqueInNamespace ==
    \A i, j \in DOMAIN models :
        (i # j /\ models[i].name = models[j].name)
            => models[i].module_path # models[j].module_path

\* how often x occurs in the list s
Count(s, x) == Cardinality({i \in DOMAIN s : s[i] = x})

(***************************************************************************)
(* C11. No model is lost or duplicated by sort: for an input whose names   *)
(* are unique within their namespace, when sort has returned without error *)
(* the ordered output holds every input model exactly once, and            *)
(* requireUpdateNames holds only names of input models, each at most once. *)
(***************************************************************************)
NoModelLost ==
    (Returned /\ UniqueInNamespace) =>
        /\ \A m \in DOMAIN models : Count(Values(sorted_data_models), m) = 1
        /\ \A i \in DOMAIN require_update_action_models :
              /\ require_update_action_models[i] \in InputNames
              /\ Count(require_update_action_models,
                       require_update_action_models[i]) = 1
====
